---- MODULE Spec2Model ----
(***************************************************************************)
(* Partially input-convex networks PICNN1, PICNN2, PICNN3 of               *)
(* ml_adp/mapping/convex.py as a state machine: construction of the layer  *)
(* banks, updates of the raw parameters between evaluations, and the       *)
(* forward evaluation one loop iteration at a time.                        *)
(*                                                                         *)
(* Numbers are exact rationals <<n, d>> (d > 0, lowest terms).  Tensors    *)
(* are batches, a sequence of rows, each row a sequence of rationals; the  *)
(* empty sequence stands for "the operation raised".  exp is modelled by   *)
(* the piecewise linear interpolant of a rational table of exp at the      *)
(* integers -3..2: strictly positive, non-decreasing, convex, exp(0) = 1.  *)
(***************************************************************************)
EXTENDS Integers, Sequences, FiniteSets, TLC

(* ------------------------------------------------------------------ *)
(* Rational arithmetic                                                 *)
(* ------------------------------------------------------------------ *)

Abs(n) == IF n < 0 THEN -n ELSE n

RECURSIVE Gcd(_, _)
Gcd(a, b) == IF b = 0 THEN a ELSE Gcd(b, a % b)

Q(n, d) ==
  LET s == IF d < 0 THEN -1 ELSE 1
      g == Gcd(Abs(n), Abs(d))
  IN  <<(s * n) \div g, (s * d) \div g>>

I(n) == <<n, 1>>

QAdd(a, b) ==
  LET g == Gcd(a[2], b[2])
  IN  Q(a[1] * (b[2] \div g) + b[1] * (a[2] \div g), (a[2] \div g) * b[2])

QNeg(a) == <<-a[1], a[2]>>

QSub(a, b) == QAdd(a, QNeg(b))

QMul(a, b) ==
  LET g1 == Gcd(Abs(a[1]), b[2])
      g2 == Gcd(Abs(b[1]), a[2])
  IN  Q((a[1] \div g1) * (b[1] \div g2), (a[2] \div g2) * (b[2] \div g1))

\* a / b, b /= 0
QDiv(a, b) == QMul(a, Q(b[2], b[1]))

QLeq(a, b) ==
  LET g == Gcd(a[2], b[2])
  IN  a[1] * (b[2] \div g) <= b[1] * (a[2] \div g)

QLt(a, b) == QLeq(a, b) /\ a # b

QFloor(a) == a[1] \div a[2]

(* ------------------------------------------------------------------ *)
(* Scalar functions of torch                                           *)
(* ------------------------------------------------------------------ *)

\* exp at the integer knots, rounded to a small dyadic fraction
ExpKnot(i) ==
  CASE i = -3 -> <<1, 16>>
    [] i = -2 -> <<1, 8>>
    [] i = -1 -> <<3, 8>>
    [] i = 0  -> <<1, 1>>
    [] i = 1  -> <<11, 4>>
    [] i = 2  -> <<15, 2>>

\* torch.exp
ExpQ(q) ==
  LET f == QFloor(q)
  IN  IF f < -3 THEN ExpKnot(-3)
      ELSE IF f >= 2
           THEN QAdd(ExpKnot(2),
                     QMul(QSub(ExpKnot(2), ExpKnot(1)), QSub(q, I(2))))
           ELSE QAdd(ExpKnot(f),
                     QMul(QSub(ExpKnot(f + 1), ExpKnot(f)), QSub(q, I(f))))

\* torch.nn.functional.relu
Relu(q) == IF q[1] < 0 THEN I(0) ELSE q

\* torch.nn.ELU (alpha = 1)
Elu(q) == IF q[1] > 0 THEN q ELSE QSub(ExpQ(q), I(1))

\* torch.nn.Sigmoid
Sigmoid(q) == QDiv(I(1), QAdd(I(1), ExpQ(QNeg(q))))

\* ml_adp.nn.IPReLU: PReLU whose slope below zero is kept non-negative
IPReLUSlope == <<1, 4>>

IPReLU(q) == QSub(Relu(q), QMul(IPReLUSlope, Relu(QNeg(q))))

\* the activation modules a constructor can be handed, by name
Activate(name, q) ==
  CASE name = "Identity" -> q
    [] name = "ReLU"     -> Relu(q)
    [] name = "ELU"      -> Elu(q)
    [] name = "IPReLU"   -> IPReLU(q)
    [] name = "Sigmoid"  -> Sigmoid(q)

(* ------------------------------------------------------------------ *)
(* Tensors: batches of rows                                            *)
(* ------------------------------------------------------------------ *)

Raised == << >>

IsRaised(t) == t = Raised

Rows(t) == Len(t)

Width(t) == Len(t[1])

Max(a, b) == IF a >= b THEN a ELSE b

\* torch's broadcasting rule for two 2-d shapes
Broadcastable(a, b) ==
  /\ (Rows(a) = Rows(b) \/ Rows(a) = 1 \/ Rows(b) = 1)
  /\ (Width(a) = Width(b) \/ Width(a) = 1 \/ Width(b) = 1)

At(t, r, c) ==
  t[IF Rows(t) = 1 THEN 1 ELSE r][IF Width(t) = 1 THEN 1 ELSE c]

\* whether an elementwise binary operation of torch accepts a and b
CanCombine(a, b) == ~IsRaised(a) /\ ~IsRaised(b) /\ Broadcastable(a, b)

\* a * b, with broadcasting
TMul(a, b) ==
  IF ~CanCombine(a, b) THEN Raised
  ELSE [r \in 1..Max(Rows(a), Rows(b)) |->
         [c \in 1..Max(Width(a), Width(b)) |-> QMul(At(a, r, c), At(b, r, c))]]

\* a + b, with broadcasting
TAdd(a, b) ==
  IF ~CanCombine(a, b) THEN Raised
  ELSE [r \in 1..Max(Rows(a), Rows(b)) |->
         [c \in 1..Max(Width(a), Width(b)) |-> QAdd(At(a, r, c), At(b, r, c))]]

TActivate(name, t) ==
  IF IsRaised(t) THEN Raised
  ELSE [r \in 1..Rows(t) |-> [c \in 1..Width(t) |-> Activate(name, t[r][c])]]

RECURSIVE Dot(_, _, _)
Dot(w, x, n) ==
  IF n = 0 THEN I(0) ELSE QAdd(Dot(w, x, n - 1), QMul(w[n], x[n]))

(* ------------------------------------------------------------------ *)
(* ml_adp.nn.Layer and ml_adp.nn.FFN                                   *)
(* ------------------------------------------------------------------ *)

\* Layer(in, out, activation, bias, batch_normalize, batch_norm_affine,
\*       constraint_func, uniform_init_range): o holds the keyword
\* arguments, w the drawn raw weight matrix (out rows of in entries) and
\* b the drawn bias vector
Layer(in, out, o, w, b) ==
  [in_features       |-> in,
   out_features      |-> out,
   activation        |-> o.activation,
   bias              |-> o.bias,
   batch_normalize   |-> o.batch_normalize,
   batch_norm_affine |-> o.batch_norm_affine,
   constraint_func   |-> o.constraint_func,
   weight            |-> w,
   b                 |-> IF o.bias THEN b ELSE [j \in 1..out |-> I(0)]]

\* Layer's default for an argument the caller leaves out
DefaultAffine == TRUE

\* the weight matrix a Layer multiplies by: constraint_func of the raw one
EffectiveWeight(l) ==
  [j \in 1..l.out_features |->
    [c \in 1..l.in_features |->
      IF l.constraint_func = "exp" THEN ExpQ(l.weight[j][c])
      ELSE l.weight[j][c]]]

\* x |-> W x + b; a trailing width other than in_features raises
Linear(l, t) ==
  IF IsRaised(t) THEN Raised
  ELSE IF Width(t) # l.in_features THEN Raised
  ELSE LET W == EffectiveWeight(l)
       IN  [r \in 1..Rows(t) |->
             [j \in 1..l.out_features |->
               QAdd(Dot(W[j], t[r], l.in_features), l.b[j])]]

\* BatchNorm1d(num_features, affine=False) as constructed: running mean 0
\* and running variance 1 for every feature.  running_scale stands for
\* 1 / sqrt(running_var + eps), a positive number.
FreshNorm(num_features) ==
  [num_features  |-> num_features,
   running_mean  |-> [c \in 1..num_features |-> I(0)],
   running_scale |-> [c \in 1..num_features |-> I(1)]]

\* a BatchNorm1d in evaluation mode: (x - running_mean) * running_scale on
\* a batch of the right width, raising otherwise
BatchNorm(bn, t) ==
  IF IsRaised(t) THEN Raised
  ELSE IF Width(t) # bn.num_features THEN Raised
  ELSE [r \in 1..Rows(t) |->
         [c \in 1..Width(t) |->
           QMul(QSub(t[r][c], bn.running_mean[c]), bn.running_scale[c])]]

\* the normalization step of a Layer, as constructed
LayerNorm(l, t) ==
  IF l.batch_normalize THEN BatchNorm(FreshNorm(l.out_features), t) ELSE t

\* the activation step of a Layer
LayerActivation(name, t) == IF name = "None" THEN t ELSE TActivate(name, t)

\* Layer.forward: affine map, then normalization, then the activation
LayerApply(l, t) == LayerActivation(l.activation, LayerNorm(l, Linear(l, t)))

\* FFN.from_config(sizes, hidden_activation, output_activation,
\* batch_normalize): one Layer per consecutive pair of sizes, the last
\* one with the output activation; ws, bs are the drawn weights
FFN_from_config(sizes, hidden, output, batch_normalize, ws, bs) ==
  [k \in 1..(Len(sizes) - 1) |->
    Layer(sizes[k], sizes[k + 1],
          [activation        |-> IF k = Len(sizes) - 1 THEN output ELSE hidden,
           bias              |-> TRUE,
           batch_normalize   |-> batch_normalize,
           batch_norm_affine |-> DefaultAffine,
           constraint_func   |-> "None"],
          ws[k], bs[k])]

\* FFN.forward: the whole stack, first layer first
RECURSIVE FFNApply(_, _, _)
FFNApply(ffn, n, t) ==
  IF n = 0 THEN t ELSE LayerApply(ffn[n], FFNApply(ffn, n - 1, t))

(* ------------------------------------------------------------------ *)
(* State                                                               *)
(* ------------------------------------------------------------------ *)

VARIABLES
  variant,            \* the class: "PICNN1", "PICNN2" or "PICNN3"
  input_config,       \* constructor arguments; "None" is an argument left out
  param_config,
  hidden_activation,
  output_activation,
  kwargs,
  pc,                 \* "new", "init_loop", "init_raised", "ready",
                      \* "forward_loop", "forward_raised"
  i,                  \* __init__'s loop index
  activations,        \* self.activations (PICNN1, PICNN2)
  input_norm,         \* self.input_norm
  L, A, U, B, V, W, Y,  \* self.L and the per-step layer lists
  passed,             \* the values the caller handed to forward
  x0, y0,             \* the caller's two tensors as they are now
  inputs_normed,      \* forward's locals
  params,
  intermediates,
  k,
  result,             \* what the last completed forward returned
  calls,              \* forward calls begun so far
  Lcalls,             \* this call's invocations of self.L: "all" or the index k
  first               \* inputs and result of the first completed call

vars == <<variant, input_config, param_config, hidden_activation, output_activation, kwargs, pc, i, activations, input_norm, L, A, U, B, V, W, Y, passed, x0, y0, inputs_normed, params, intermediates, k, result, calls, Lcalls, first>>

args == <<variant, input_config, param_config, hidden_activation, output_activation, kwargs>>

banks == <<activations, input_norm, L, A, U, B, V, W, Y>>

frame == <<passed, x0, y0, inputs_normed, params, intermediates, k, result, calls, Lcalls, first>>

(* ------------------------------------------------------------------ *)
(* __init__                                                            *)
(* ------------------------------------------------------------------ *)

\* kwargs.get(name, default) with the defaults of lines 35-42
DefaultKwargs ==
  [param_net_batch_normalize    |-> TRUE,
   AB_layers_batch_normalize    |-> TRUE,
   UVW_layers_batch_normalize   |-> TRUE,
   UVW_layers_batch_norm_affine |-> TRUE,
   floor_func                   |-> "ReLU"]

\* "if hidden_activation is None: ..." of each class
DefaultHidden(v) == IF v = "PICNN1" THEN "ELU" ELSE "IPReLU"

OrDefault(given, default) == IF given = "None" THEN default ELSE given

\* a Python list repeated n times ([x] * n is empty for n <= 0)
Repeat(x, n) == [j \in 1..n |-> x]

\* ModuleList(*([hidden_activation] * (len(input_config) - 2) + [output_activation]))
MakeActivations(cfg, hidden, output) ==
  Repeat(hidden, Len(cfg) - 2) \o <<output>>

Matrices(out, in, S) == [1..out -> [1..in -> S]]

Vectors(out, S) == [1..out -> S]

\* one weight matrix (bias vector) per layer of an FFN of these sizes
RECURSIVE MatrixSeqs(_, _, _)
MatrixSeqs(sizes, n, S) ==
  IF n <= 0 THEN {<< >>}
  ELSE {Append(q, m) : q \in MatrixSeqs(sizes, n - 1, S),
                       m \in Matrices(sizes[n + 1], sizes[n], S)}

RECURSIVE VectorSeqs(_, _, _)
VectorSeqs(sizes, n, S) ==
  IF n <= 0 THEN {<< >>}
  ELSE {Append(q, m) : q \in VectorSeqs(sizes, n - 1, S),
                       m \in Vectors(sizes[n + 1], S)}

\* an A layer whose raw weights are used as they are
MakeA_Unconstrained(in, out, kw, w) ==
  Layer(in, out,
        [activation        |-> "None",
         bias              |-> FALSE,
         batch_normalize   |-> kw.AB_layers_batch_normalize,
         batch_norm_affine |-> FALSE,
         constraint_func   |-> "None"],
        w, << >>)

\* self.A.append(Layer(input_config[i], input_config[i+1], activation=None,
\*   bias=False, batch_normalize=..., batch_norm_affine=False,
\*   constraint_func=torch.exp, uniform_init_range=...))
MakeA(in, out, kw, w) ==
  Layer(in, out,
        [activation        |-> "None",
         bias              |-> FALSE,
         batch_normalize   |-> kw.AB_layers_batch_normalize,
         batch_norm_affine |-> FALSE,
         constraint_func   |-> "exp"],
        w, << >>)

\* a U layer without the floor function
MakeU_NoFloor(in, out, kw, w, b) ==
  Layer(in, out,
        [activation        |-> "None",
         bias              |-> TRUE,
         batch_normalize   |-> kw.UVW_layers_batch_normalize,
         batch_norm_affine |-> kw.UVW_layers_batch_norm_affine,
         constraint_func   |-> "None"],
        w, b)

\* self.U.append(Layer(param_dim, input_config[i], activation=self.floor_func, ...))
MakeU(in, out, kw, w, b) ==
  Layer(in, out,
        [activation        |-> kw.floor_func,
         bias              |-> TRUE,
         batch_normalize   |-> kw.UVW_layers_batch_normalize,
         batch_norm_affine |-> kw.UVW_layers_batch_norm_affine,
         constraint_func   |-> "None"],
        w, b)

\* self.B.append(Layer(input_config[0], input_config[i+1], activation=None, bias=False, ...))
MakeB(in, out, kw, w) ==
  Layer(in, out,
        [activation        |-> "None",
         bias              |-> FALSE,
         batch_normalize   |-> kw.AB_layers_batch_normalize,
         batch_norm_affine |-> DefaultAffine,
         constraint_func   |-> "None"],
        w, << >>)

\* self.V.append(...) and self.W.append(...): activation=None
MakeVW(in, out, kw, w, b) ==
  Layer(in, out,
        [activation        |-> "None",
         bias              |-> TRUE,
         batch_normalize   |-> kw.UVW_layers_batch_normalize,
         batch_norm_affine |-> kw.UVW_layers_batch_norm_affine,
         constraint_func   |-> "None"],
        w, b)

\* self.Y.append(Layer(param_config[-1], input_config[i+1],
\*   activation=torch.nn.Sigmoid(), batch_normalize=True, batch_norm_affine=False))
MakeY(in, out, w, b) ==
  Layer(in, out,
        [activation        |-> "Sigmoid",
         bias              |-> TRUE,
         batch_normalize   |-> TRUE,
         batch_norm_affine |-> FALSE,
         constraint_func   |-> "None"],
        w, b)

\* the index of param_config a loop iteration reads (0-based, as the
\* class writes it): param_config[i] in PICNN1, param_config[-1] else
ParamIndex(v, idx, cfg) == IF v = "PICNN1" THEN idx ELSE Len(cfg) - 1

\* whether a Python list has the (0-based, non-negative) index
HasIndex(list, idx) == 0 <= idx /\ idx < Len(list)

\* lines 33-69 (155-190, 271-302): everything before the loop.  D holds
\* the sets the initial weights are drawn from.
InitHead(D) ==
  /\ pc = "new"
  /\ IF ~HasIndex(input_config, 0)
     THEN /\ pc' = "init_raised"
          /\ UNCHANGED banks
     ELSE /\ activations' =
               IF variant = "PICNN3" THEN << >>
               ELSE MakeActivations(input_config,
                      OrDefault(hidden_activation, DefaultHidden(variant)),
                      OrDefault(output_activation, "Identity"))
          /\ input_norm' = FreshNorm(input_config[1])
          /\ \E ws \in MatrixSeqs(param_config, Len(param_config) - 1, D.Lw),
                bs \in VectorSeqs(param_config, Len(param_config) - 1, D.Lb) :
               L' = FFN_from_config(param_config, "ELU", "None",
                                    kwargs.param_net_batch_normalize, ws, bs)
          /\ UNCHANGED <<A, U, B, V, W, Y>>
          /\ pc' = IF Len(input_config) - 1 > 0 THEN "init_loop" ELSE "ready"
  /\ i' = 0
  /\ UNCHANGED <<args, frame>>

\* one iteration of "for i in range(len(input_config) - 1)": lines 71-110
\* (192-230, 304-349)
InitLoop(D) ==
  /\ pc = "init_loop"
  /\ LET n0   == input_config[1]
         nin  == input_config[i + 1]
         nout == input_config[i + 2]
         pidx == ParamIndex(variant, i, param_config)
     IN  IF ~HasIndex(param_config, pidx)
         THEN /\ pc' = "init_raised"
              /\ UNCHANGED <<i, banks>>
         ELSE LET m == param_config[pidx + 1]
              IN  /\ \E w \in Matrices(nout, nin, D.A) :
                       A' = Append(A, MakeA(nin, nout, kwargs, w))
                  /\ \E w \in Matrices(nin, m, D.Uw), b \in Vectors(nin, D.Ub) :
                       U' = Append(U, MakeU(m, nin, kwargs, w, b))
                  /\ \E w \in Matrices(nout, n0, D.B) :
                       B' = Append(B, MakeB(n0, nout, kwargs, w))
                  /\ \E w \in Matrices(n0, m, D.Vw), b \in Vectors(n0, D.Vb) :
                       V' = Append(V, MakeVW(m, n0, kwargs, w, b))
                  /\ \E w \in Matrices(nout, m, D.Ww), b \in Vectors(nout, D.Wb) :
                       W' = Append(W, MakeVW(m, nout, kwargs, w, b))
                  /\ IF variant = "PICNN3"
                     THEN \E w \in Matrices(nout, m, D.Yw), b \in Vectors(nout, D.Yb) :
                            Y' = Append(Y, MakeY(m, nout, w, b))
                     ELSE Y' = Y
                  /\ i' = i + 1
                  /\ pc' = IF i + 1 < Len(input_config) - 1
                           THEN "init_loop" ELSE "ready"
                  /\ UNCHANGED <<activations, input_norm, L>>
  /\ UNCHANGED <<args, frame>>

(* ------------------------------------------------------------------ *)
(* forward                                                             *)
(* ------------------------------------------------------------------ *)

\* eps=1e-2, the default of celu's third parameter
CeluEps == <<1, 100>>

\* PICNN3.prelu on one element
Prelu(u, w) == QSub(Relu(u), QMul(w, Relu(QNeg(u))))

\* PICNN3.celu on one element
Celu(u, w) ==
  LET weights   == QAdd(w, CeluEps)
      inputs_np == QNeg(Relu(QNeg(u)))
  IN  QSub(Relu(u),
           QMul(Relu(QDiv(QSub(I(1), ExpQ(inputs_np)), weights)), weights))

\* PICNN3.celu on tensors, broadcasting as torch does
TCelu(t, w) ==
  IF ~CanCombine(t, w) THEN Raised
  ELSE [r \in 1..Max(Rows(t), Rows(w)) |->
         [c \in 1..Max(Width(t), Width(w)) |-> Celu(At(t, r, c), At(w, r, c))]]

\* A[k](intermediates * U[k](params)) + B[k](inputs * V[k](params)) + W[k](params)
PreActivation(kk, inputs, inter, par) ==
  LET intermediates1 == LayerApply(A[kk + 1], TMul(inter, LayerApply(U[kk + 1], par)))
      intermediates2 == LayerApply(B[kk + 1], TMul(inputs, LayerApply(V[kk + 1], par)))
  IN  TAdd(TAdd(intermediates1, intermediates2), LayerApply(W[kk + 1], par))

\* self.L[k](params): an index past the stack raises
LStep(kk, par) == IF HasIndex(L, kk) THEN LayerApply(L[kk + 1], par) ELSE Raised

\* PICNN1's loop body with the context advanced before it is used
PICNN1_body_ContextFirst(kk, inputs, inter, par) ==
  [intermediates |-> TActivate(activations[kk + 1], PreActivation(kk, inputs, inter, LStep(kk, par))),
   params        |-> LStep(kk, par),
   Lcalls        |-> <<kk>>]

\* the body of PICNN1.forward's loop, lines 123-127
PICNN1_body(kk, inputs, inter, par) ==
  [intermediates |-> TActivate(activations[kk + 1], PreActivation(kk, inputs, inter, par)),
   params        |-> LStep(kk, par),
   Lcalls        |-> <<kk>>]

\* PICNN2's loop body advancing the context at every step, as PICNN1 does
PICNN2_body_PerStep(kk, inputs, inter, par) ==
  [intermediates |-> TActivate(activations[kk + 1], PreActivation(kk, inputs, inter, par)),
   params        |-> LStep(kk, par),
   Lcalls        |-> <<kk>>]

\* the body of PICNN2.forward's loop, lines 241-244
PICNN2_body(kk, inputs, inter, par) ==
  [intermediates |-> TActivate(activations[kk + 1], PreActivation(kk, inputs, inter, par)),
   params        |-> par,
   Lcalls        |-> << >>]

\* PICNN3's loop body with the constructor's output activation at the last step
PICNN3_body_OutputActivation(kk, inputs, inter, par) ==
  [intermediates |->
     IF kk = Len(A) - 1
     THEN TActivate(OrDefault(output_activation, "Identity"), PreActivation(kk, inputs, inter, par))
     ELSE TCelu(PreActivation(kk, inputs, inter, par), LayerApply(Y[kk + 1], par)),
   params        |-> par,
   Lcalls        |-> << >>]

\* the body of PICNN3.forward's loop, lines 371-374
PICNN3_body(kk, inputs, inter, par) ==
  [intermediates |-> TCelu(PreActivation(kk, inputs, inter, par), LayerApply(Y[kk + 1], par)),
   params        |-> par,
   Lcalls        |-> << >>]

\* an in-place update of the tensor the local name is bound to
RebindInPlace(caller, local) == local

\* an assignment to forward's local name leaves the caller's tensor alone
Rebind(caller, local) == caller

\* forward's locals at the head of its loop; an operand that raised is << >>
AtLoopHead(normed, x, par, invoked) ==
  [inputs_normed |-> normed,
   intermediates |-> x,
   params        |-> par,
   Lcalls        |-> invoked,
   raised        |-> IsRaised(normed) \/ IsRaised(par)]

\* PICNN1.forward up to its loop, lines 118-120
PICNN1_enter(x, y) == AtLoopHead(BatchNorm(input_norm, x), x, y, << >>)

\* PICNN2.forward and PICNN3.forward up to the loop, lines 237-238
\* (367-368); neither computes inputs_normed
PICNN23_enter(x, y) == AtLoopHead(<<(<< >>)>>, x, FFNApply(L, Len(L), y), <<-1>>)

\* forward up to the loop, by class
Enter(x, y) ==
  IF variant = "PICNN1" THEN PICNN1_enter(x, y) ELSE PICNN23_enter(x, y)

\* a call forward(x, y) on the caller's tensors x and y
Begin(x, y) ==
  \E e \in {Enter(x, y)} :
      /\ x0' = x
      /\ y0' = Rebind(y, e.params)
      /\ inputs_normed' = e.inputs_normed
      /\ intermediates' = e.intermediates
      /\ params' = e.params
      /\ Lcalls' = e.Lcalls
      /\ pc' = IF e.raised THEN "forward_raised" ELSE "forward_loop"
      /\ k' = 0
      /\ calls' = calls + 1
      /\ UNCHANGED <<args, banks, i, result, first>>

\* the caller makes two tensors, from XS and YS, and calls forward on them
ForwardEnter(XS, YS, maxCalls) ==
  /\ pc = "ready" /\ calls < maxCalls
  /\ \E x \in XS, y \in YS : Begin(x, y) /\ passed' = <<x, y>>

\* the caller calls forward once more on the tensors of its last call
ForwardAgain(maxCalls) ==
  /\ pc = "ready" /\ 1 <= calls /\ calls < maxCalls
  /\ Begin(x0, y0)
  /\ UNCHANGED passed

\* the loop body, by class
Body(kk, inputs, inter, par) ==
  CASE variant = "PICNN1" -> PICNN1_body(kk, inputs, inter, par)
    [] variant = "PICNN2" -> PICNN2_body(kk, inputs, inter, par)
    [] variant = "PICNN3" -> PICNN3_body(kk, inputs, inter, par)

\* one iteration of "for k in range(len(self))"
ForwardStep ==
  /\ pc = "forward_loop" /\ k < Len(A)
  /\ \E nxt \in {Body(k, x0, intermediates, params)} :
         /\ intermediates' = nxt.intermediates
         /\ params' = nxt.params
         /\ Lcalls' = Lcalls \o nxt.Lcalls
         /\ y0' = Rebind(y0, nxt.params)
         /\ pc' = IF IsRaised(nxt.intermediates) \/ IsRaised(nxt.params)
                  THEN "forward_raised" ELSE "forward_loop"
  /\ k' = k + 1
  /\ UNCHANGED <<args, banks, i, passed, x0, inputs_normed, result, calls, first>>

\* "return intermediates"
ForwardReturn ==
  /\ pc = "forward_loop" /\ k = Len(A)
  /\ result' = intermediates
  /\ first' = IF first = << >> THEN <<passed[1], passed[2], intermediates>> ELSE first
  /\ pc' = "ready"
  /\ UNCHANGED <<args, banks, i, passed, x0, y0, inputs_normed, params, intermediates, k, calls, Lcalls>>

(* ------------------------------------------------------------------ *)
(* Between evaluations: training changes parameters and statistics     *)
(* ------------------------------------------------------------------ *)

\* an optimizer step on the raw weights of the A layers
UpdateRaw(S) ==
  /\ pc = "ready"
  /\ \E j \in 1..Len(A) :
       \E w \in Matrices(A[j].out_features, A[j].in_features, S) :
         /\ w # A[j].weight
         /\ A' = [A EXCEPT ![j].weight = w]
  /\ UNCHANGED <<args, pc, i, activations, input_norm, L, U, B, V, W, Y, frame>>

\* evaluations in training mode move input_norm's running statistics
UpdateStats(MS) ==
  /\ pc = "ready"
  /\ \E ms \in MS :
       /\ input_norm' =
            [input_norm EXCEPT
               !.running_mean  = [c \in 1..input_norm.num_features |-> ms[1]],
               !.running_scale = [c \in 1..input_norm.num_features |-> ms[2]]]
       /\ input_norm' # input_norm
  /\ UNCHANGED <<args, pc, i, activations, L, A, U, B, V, W, Y, frame>>

(* ------------------------------------------------------------------ *)
(* Specifications                                                      *)
(* ------------------------------------------------------------------ *)

\* constructor calls: every class with every combination of arguments
\* (PICNN3 takes no hidden_activation)
ArgSets(Vs, ICs, PCs, Hs, Os) ==
  {a \in [variant : Vs, input_config : ICs, param_config : PCs,
          hidden_activation : Hs, output_activation : Os] :
     a.variant = "PICNN3" => a.hidden_activation = "None"}

\* before __init__ runs
InitWith(AS) ==
  /\ \E a \in AS :
       /\ variant = a.variant
       /\ input_config = a.input_config
       /\ param_config = a.param_config
       /\ hidden_activation = a.hidden_activation
       /\ output_activation = a.output_activation
  /\ kwargs = DefaultKwargs
  /\ pc = "new"
  /\ i = 0
  /\ activations = << >>
  /\ input_norm = FreshNorm(0)
  /\ L = << >> /\ A = << >> /\ U = << >> /\ B = << >>
  /\ V = << >> /\ W = << >> /\ Y = << >>
  /\ passed = << >> /\ x0 = << >> /\ y0 = << >>
  /\ inputs_normed = << >> /\ params = << >> /\ intermediates = << >>
  /\ k = 0
  /\ result = << >>
  /\ calls = 0
  /\ Lcalls = << >>
  /\ first = << >>

Variants == {"PICNN1", "PICNN2", "PICNN3"}

\* a batch of one row of width 1
Scalar(n) == <<(<<I(n)>>)>>

(* ---- Spec: the forward recurrences of the three classes ---- *)

RecDraws ==
  [A  |-> {I(-1), I(0)},
   Uw |-> {I(1)},  Ub |-> {I(1)},
   B  |-> {I(1)},
   Vw |-> {I(1)},  Vb |-> {I(0)},
   Ww |-> {I(-1), I(1)}, Wb |-> {I(0)},
   Yw |-> {I(1)},  Yb |-> {I(0)},
   Lw |-> {I(2)},  Lb |-> {I(1)}]

RecArgs ==
  ArgSets(Variants, {<<1, 1>>, <<1, 1, 1>>}, {<<1, 1, 1>>}, {"None"}, {"None", "ReLU"})

RecX == {Scalar(-2), Scalar(1)}

RecY == {Scalar(-1), Scalar(1)}

RecStats == {<<I(1), <<1, 2>> >>}

\* forward calls per behaviour
RecCalls == 2

Init == InitWith(RecArgs)

Next ==
  \/ InitHead(RecDraws)
  \/ InitLoop(RecDraws)
  \/ UpdateStats(RecStats)
  \/ ForwardEnter(RecX, RecY, RecCalls)
  \/ ForwardAgain(RecCalls)
  \/ ForwardStep
  \/ ForwardReturn

Spec == Init /\ [][Next]_vars

(* ------------------------------------------------------------------ *)
(* The recurrences as the specification writes them                    *)
(* ------------------------------------------------------------------ *)

\* N + 1, the number of steps
Steps == Len(input_config) - 1

\* g_k of PICNN1 and PICNN2: the hidden activation for k < N, the output
\* activation (identity by default) for k = N
G(kk) ==
  IF kk = Steps - 1 THEN OrDefault(output_activation, "Identity")
  ELSE OrDefault(hidden_activation, DefaultHidden(variant))

\* A_k(x_k * U_k(y)) + B_k(x_0 * V_k(y)) + W_k(y), k counted from 0
StepSum(kk, xk, x, y) ==
  TAdd(TAdd(LayerApply(A[kk + 1], TMul(xk, LayerApply(U[kk + 1], y))),
            LayerApply(B[kk + 1], TMul(x, LayerApply(V[kk + 1], y)))),
       LayerApply(W[kk + 1], y))

\* y_n of PICNN1: y_0 = y, y_{k+1} = L_k(y_k)
RECURSIVE ContextPath(_, _)
ContextPath(n, y) ==
  IF n = 0 THEN y ELSE LayerApply(L[n], ContextPath(n - 1, y))

\* x_n of PICNN1: x_{k+1} = g_k(StepSum(k, x_k, x_0, y_k))
RECURSIVE Recurrence1(_, _, _)
Recurrence1(n, x, y) ==
  IF n = 0 THEN x
  ELSE TActivate(G(n - 1),
         StepSum(n - 1, Recurrence1(n - 1, x, y), x, ContextPath(n - 1, y)))

\* y* = L(y_0), the whole stack
Embedding(y) == ContextPath(Len(L), y)

\* x_n of PICNN2: x_{k+1} = g_k(StepSum(k, x_k, x_0, y*))
RECURSIVE Recurrence2(_, _, _)
Recurrence2(n, x, ystar) ==
  IF n = 0 THEN x
  ELSE TActivate(G(n - 1), StepSum(n - 1, Recurrence2(n - 1, x, ystar), x, ystar))

\* x_n of PICNN3: x_{k+1} = celu(StepSum(k, x_k, x_0, y*), Y_k(y*))
RECURSIVE Recurrence3(_, _, _)
Recurrence3(n, x, ystar) ==
  IF n = 0 THEN x
  ELSE TCelu(StepSum(n - 1, Recurrence3(n - 1, x, ystar), x, ystar),
             LayerApply(Y[n], ystar))

\* forward is between two loop iterations, or has returned
InLoop == pc = "forward_loop"

Returned == pc = "ready" /\ calls >= 1

\* C8: PICNN1.forward runs len(input_config) - 1 steps; after k of them
\* its state is x_k and y_k of the recurrence, x_{k+1} being computed from
\* y_k before the context advances to y_{k+1} = L_k(y_k); g_N is the
\* output activation; the B_k term uses the raw x_0, whatever input_norm
\* makes of it; the value returned is x_{N+1}.
C8_PICNN1Recurrence ==
  variant = "PICNN1" =>
    /\ InLoop =>
         /\ k <= Steps
         /\ intermediates = Recurrence1(k, passed[1], passed[2])
         /\ params = ContextPath(k, passed[2])
         /\ Lcalls = [j \in 1..k |-> j - 1]
    /\ Returned =>
         /\ k = Steps
         /\ result = Recurrence1(Steps, passed[1], passed[2])

\* a two-step PICNN1 has returned, its context moved at every step, its
\* input_norm is not the identity, and the output activation acted
C8_Witness ==
  /\ variant = "PICNN1" /\ Returned /\ Steps = 2
  /\ inputs_normed # x0
  /\ ContextPath(1, passed[2]) # passed[2]
  /\ ContextPath(2, passed[2]) # ContextPath(1, passed[2])
  /\ output_activation = "ReLU"
  /\ result # StepSum(1, Recurrence1(1, x0, y0), x0, ContextPath(1, y0))

ForwardMoves == pc = "forward_loop" \/ pc' \in {"forward_loop", "forward_raised"}

MaxAbsX == 2

\* the mixing weights t are the multiples of 1 / MixDen
MixDen == 2

\* t * a + (1 - t) * b for t = p / MixDen
Mix(p, a, b) == QDiv(QAdd(QMul(I(p), a), QMul(I(MixDen - p), b)), I(MixDen))

\* a batch of three rows of width 1
Batch3(a, m, b) == <<(<<a>>), (<<m>>), (<<b>>)>>

ConvexX ==
  {Batch3(I(a), Mix(p, I(a), I(b)), I(b)) :
     a \in -MaxAbsX..MaxAbsX, b \in 1..MaxAbsX, p \in 1..(MixDen - 1)}

ConvexY == {Batch3(I(-1), I(-1), I(-1)), Batch3(I(1), I(1), I(1))}

ConvexDraws ==
  [A  |-> {I(-1)},
   Uw |-> {I(1)},  Ub |-> {I(0)},
   B  |-> {I(-1), I(1)},
   Vw |-> {I(1)},  Vb |-> {I(1)},
   Ww |-> {I(1)},  Wb |-> {I(0)},
   Yw |-> {I(1)},  Yb |-> {I(0)},
   Lw |-> {I(2)},  Lb |-> {I(1)}]

ConvexArgs ==
  ArgSets(Variants, {<<1, 1>>, <<1, 1, 1>>}, {<<1, 1, 1>>}, {"None"}, {"None", "ELU"})

ConvexInit == InitWith(ConvexArgs)

ConvexNext ==
  \/ InitHead(ConvexDraws)
  \/ InitLoop(ConvexDraws)
  \/ ForwardEnter(ConvexX, ConvexY, 1)
  \/ ForwardStep
  \/ ForwardReturn

SpecConvex == ConvexInit /\ [][ConvexNext]_vars

\* rows of the last call's batch that were evaluated under one context
SameContext(r1, r2) == passed[2][r1] = passed[2][r2]

\* row r1 of a batch is elementwise at most row r2
RowLeq(t, r1, r2) == \A c \in 1..Width(t) : QLeq(t[r1][c], t[r2][c])

\* row rm of t is p/MixDen of row ra plus the rest of row rb
RowIsMix(t, p, ra, rm, rb) ==
  \A c \in 1..Width(t) : t[rm][c] = Mix(p, t[ra][c], t[rb][c])

\* row rm of t is at most that mix
RowBelowMix(t, p, ra, rm, rb) ==
  \A c \in 1..Width(t) : QLeq(t[rm][c], Mix(p, t[ra][c], t[rb][c]))

\* C2: convexity in x_0: whenever three rows of a batch share their
\* context and the middle one is t * x_a + (1 - t) * x_b, the output of
\* the middle row is at most t * forward(x_a) + (1 - t) * forward(x_b),
\* in every class, with positive A_k weights, non-negative U_k outputs and
\* convex non-decreasing activations.
C2_Convex ==
  Returned =>
    \A ra, rm, rb \in 1..Rows(result) : \A p \in 0..MixDen :
      (/\ SameContext(ra, rm) /\ SameContext(rm, rb)
       /\ RowIsMix(passed[1], p, ra, rm, rb))
      => RowBelowMix(result, p, ra, rm, rb)

\* a two-step network returned strictly less at a strict mix of two
\* different inputs than the mix of their outputs
C2_Witness ==
  /\ Returned /\ Steps = 2
  /\ passed[1][1] # passed[1][3]
  /\ \E p \in 1..(MixDen - 1) :
       /\ RowIsMix(passed[1], p, 1, 2, 3)
       /\ RowBelowMix(result, p, 1, 2, 3)
       /\ ~RowIsMix(result, p, 1, 2, 3)

\* the context step k (from 0) reads: y_k in PICNN1, y* in the others
ContextAt(kk, y) ==
  IF variant = "PICNN1" THEN ContextPath(kk, y) ELSE Embedding(y)

\* every entry of B_k's weight matrix times the matching entry of
\* V_k(context) is non-negative, at every step, for row r's context
BranchNonDecreasing(r) ==
  \A j \in 1..Len(B) :
    \A o \in 1..B[j].out_features : \A c \in 1..B[j].in_features :
      QLeq(I(0), QMul(EffectiveWeight(B[j])[o][c],
                      LayerApply(V[j], ContextAt(j - 1, passed[2]))[r][c]))

MaxBatch == 2

MaxWidth == 2

\* a batch of b rows of width w
Filled(b, w) == [r \in 1..b |-> [c \in 1..w |-> I(1)]]

ShapeInputs == {Filled(b, w) : b \in 1..MaxBatch, w \in 1..MaxWidth}

ShapeDraws ==
  [A  |-> {I(0)},
   Uw |-> {I(1)},  Ub |-> {I(0)},
   B  |-> {I(1)},
   Vw |-> {I(1)},  Vb |-> {I(0)},
   Ww |-> {I(1)},  Wb |-> {I(0)},
   Yw |-> {I(1)},  Yb |-> {I(0)},
   Lw |-> {I(1)},  Lb |-> {I(0)}]

ShapeArgs ==
  ArgSets(Variants, {<<1>>, <<2, 1>>, <<1, 1, 1>>}, {<<1, 1>>, <<2, 1, 1>>}, {"None"}, {"None"})

ShapeInit == InitWith(ShapeArgs)

ShapeNext ==
  \/ InitHead(ShapeDraws)
  \/ InitLoop(ShapeDraws)
  \/ ForwardEnter(ShapeInputs, ShapeInputs, 1)
  \/ ForwardStep
  \/ ForwardReturn

SpecShape == ShapeInit /\ [][ShapeNext]_vars

\* x_0 is (B, n_0) and y_0 is (B, m_0)
WellShaped ==
  /\ Width(passed[1]) = input_config[1]
  /\ Width(passed[2]) = param_config[1]
  /\ Rows(passed[1]) = Rows(passed[2])

\* both lists have at least two entries, all positive, and param_config
\* has an entry for every step that reads one
WellFormedConfig ==
  /\ Len(input_config) >= 2
  /\ Len(param_config) >= 2
  /\ \A j \in 1..Len(input_config) : input_config[j] > 0
  /\ \A j \in 1..Len(param_config) : param_config[j] > 0
  /\ variant = "PICNN1" => Len(param_config) >= Len(input_config)

\* C3 as stated: on a well-formed model, forward of a (B, n_0) and a
\* (B, m_0) batch returns a (B, n_{N+1}) batch, and forward of anything
\* else raises: it never returns a value obtained by broadcasting.
C3_ShapeContract ==
  WellFormedConfig =>
    /\ (pc = "forward_raised" => ~WellShaped)
    /\ (Returned =>
          /\ WellShaped
          /\ Rows(result) = Rows(passed[1])
          /\ Width(result) = input_config[Len(input_config)])

\* C4 as stated: a malformed configuration raises in the constructor, so
\* a model that was constructed is well-formed and its forward completes
\* on well-shaped inputs.
C4_ConfigErrorsAtConstruction ==
  /\ pc \in {"ready", "forward_loop", "forward_raised"} => WellFormedConfig
  /\ pc = "forward_raised" => ~WellShaped

(* ---- SpecCelu: PICNN3.celu as a function of its two arguments ---- *)

\* pre-activations are the halves n/2 with |n| <= CeluHalves
CeluHalves == 4

CeluInputs == {Q(n, 2) : n \in -CeluHalves..CeluHalves}

\* gate values in (0,1): near 0, in the middle, near 1
CeluGates == {Q(1, 100), Q(1, 2), Q(99, 100)}

\* the pre-activations u_a < u_b in both rows, the gate w_1 in the first
\* row and w_2 > w_1 in the second
CeluInit ==
  /\ variant = "PICNN3"
  /\ input_config = <<2, 2>>
  /\ param_config = <<1, 1>>
  /\ hidden_activation = "None"
  /\ output_activation = "None"
  /\ kwargs = DefaultKwargs
  /\ pc = "celu_new"
  /\ i = 0
  /\ activations = << >>
  /\ input_norm = FreshNorm(0)
  /\ L = << >> /\ A = << >> /\ U = << >> /\ B = << >>
  /\ V = << >> /\ W = << >> /\ Y = << >>
  /\ \E ua \in CeluInputs, ub \in CeluInputs, w1 \in CeluGates, w2 \in CeluGates :
       /\ QLt(ua, ub)
       /\ QLt(w1, w2)
       /\ passed = << <<(<<ua, ub>>), <<ua, ub>> >>, <<(<<w1, w1>>), <<w2, w2>> >> >>
  /\ x0 = << >> /\ y0 = << >>
  /\ inputs_normed = << >> /\ params = << >> /\ intermediates = << >>
  /\ k = 0
  /\ result = << >>
  /\ calls = 0
  /\ Lcalls = << >>
  /\ first = << >>

\* PICNN3.celu(inputs, weights)
CeluApply ==
  /\ pc = "celu_new"
  /\ result' = TCelu(passed[1], passed[2])
  /\ pc' = "celu_done"
  /\ UNCHANGED <<args, banks, i, passed, x0, y0, inputs_normed, params, intermediates, k, calls, Lcalls, first>>

CeluNext == CeluApply

SpecCelu == CeluInit /\ [][CeluNext]_vars

\* C5 as stated: celu(u, w) is non-decreasing in u for every gate w in
\* (0,1), and the gate shapes the activation: at a negative pre-activation
\* u a smaller and a larger gate give different values of celu(u, w).
C5_GateShapesCelu ==
  pc = "celu_done" =>
    /\ \A r \in 1..2 : QLeq(result[r][1], result[r][2])
    /\ QLt(passed[1][1][1], I(0)) => result[1][1] # result[2][1]

\* what the code computes instead: the gate cancels, celu(u, w) is
\* relu(u) - (1 - exp(min(u, 0))) whatever w is
CeluIgnoresGate ==
  pc = "celu_done" =>
    \A r \in 1..2, c \in 1..2 :
      result[r][c] = QSub(Relu(passed[1][r][c]), QSub(I(1), ExpQ(QNeg(Relu(QNeg(passed[1][r][c]))))))

(* ---- SpecTrain: the A layers under updates of their raw weights ---- *)

TrainDraws ==
  [A  |-> {I(0)},
   Uw |-> {I(1)},  Ub |-> {I(1)},
   B  |-> {I(1)},
   Vw |-> {I(1)},  Vb |-> {I(0)},
   Ww |-> {I(1)},  Wb |-> {I(0)},
   Yw |-> {I(1)},  Yb |-> {I(0)},
   Lw |-> {I(1)},  Lb |-> {I(0)}]

\* the raw values an update may write
TrainRaw == {I(-2), I(0), I(1)}

TrainArgs ==
  ArgSets(Variants, {<<1, 1>>, <<1, 1, 1>>}, {<<1, 1, 1>>}, {"None"}, {"None"})

TrainX == {Scalar(-1), Scalar(1)}

TrainY == {Scalar(1)}

\* forward calls per behaviour
TrainCalls == 2

TrainInit == InitWith(TrainArgs)

TrainNext ==
  \/ InitHead(TrainDraws)
  \/ InitLoop(TrainDraws)
  \/ UpdateRaw(TrainRaw)
  \/ ForwardEnter(TrainX, TrainY, TrainCalls)
  \/ ForwardStep
  \/ ForwardReturn

SpecTrain == TrainInit /\ [][TrainNext]_vars

\* every entry of the matrix m is > 0
AllPositive(m) == \A r \in 1..Len(m) : \A c \in 1..Len(m[r]) : QLt(I(0), m[r][c])

\* the effective weight of the layer l is exp of its raw weight, entry by entry
IsExpOfRaw(l) ==
  /\ Len(EffectiveWeight(l)) = Len(l.weight)
  /\ \A r \in 1..Len(l.weight) :
       EffectiveWeight(l)[r] = [c \in 1..Len(l.weight[r]) |-> ExpQ(l.weight[r][c])]

\* C6: in all three classes every A_k has no bias and no learned
\* normalization shift, its effective weight is exp of the raw weight and
\* so > 0 in every entry, after construction and after every update of the
\* raw weights between evaluations; a constructed model has one A_k per step.
C6_APositive ==
  /\ pc \in {"ready", "forward_loop", "forward_raised"} => Len(A) = Steps
  /\ \A j \in 1..Len(A) :
       /\ ~A[j].bias
       /\ ~A[j].batch_norm_affine
       /\ IsExpOfRaw(A[j])
       /\ AllPositive(EffectiveWeight(A[j]))

\* a model evaluated twice whose raw A weights were updated to a negative
\* value, a value construction does not draw
C6_Witness ==
  /\ Returned /\ calls = TrainCalls
  /\ \E j \in 1..Len(A) : A[j].weight[1][1] = I(-2)
  /\ \A j \in 1..Len(A) : AllPositive(EffectiveWeight(A[j]))

====
